---------------------------- MODULE Spec2Model ----------------------------
(***************************************************************************)
(* A session of the I2C wrapper library: src/src/frostapi.py (FrostAPI,     *)
(* v0.3) and its earlier revision src/src/i2c_api.py (I2C_API, v0.1).       *)
(*                                                                          *)
(* The platform driver pyb.I2C is the environment.  Of the bus handle the   *)
(* model keeps what the wrappers read back from it: whether it has been     *)
(* init()-ed and in which mode (this is what str(i2c) prints), and for      *)
(* every address whether is_ready() answers True.  Every call a wrapper     *)
(* makes on the handle is logged in `calls`, in order, with the arguments   *)
(* it was given.  A driver call is taken to return; the exceptions the      *)
(* model tracks are the ones the wrappers raise themselves.                 *)
(***************************************************************************)
EXTENDS Integers, Sequences, FiniteSets

\* ----------------------------------------------------------------- bounds
MaxAddr == 1          \* bus addresses are 0..MaxAddr
MaxTimeout == 1       \* timeouts other than the default are 1..MaxTimeout

\* ------------------------------------------------------ program constants
None == -1                   \* self._addr = None
DefaultTimeout == 5000       \* set_timeout(self, timeout=5000)
DefaultAddrSize == 8         \* set_addr_size(self, addr_size=8)
ApiDefaultAddr == 0          \* I2C_API._ADDR = 0x00
WideAddrSize == 16           \* ":param addr_size: 8 or 16 bit."

Addrs == 0..MaxAddr
Timeouts == {DefaultTimeout} \cup (1..MaxTimeout)
AddrSizes == {DefaultAddrSize, WideAddrSize}
Modes == {"MASTER", "SLAVE"}
Bufs == {"buf"}
Sizes == {2}
MemAddrs == {0}
BusSteps == 1..2      \* the accesses of a call that the devices' answers bear
                      \* on: its first, and the one that follows it

\* The exceptions the wrappers raise, by their messages.
not_found_address == "Couldn't find the device address!"
not_init_device == "Didn't init your device yet!"
not_init_by_master_mode == "Didn't init your device by Master mode."
Raises_device_address == "Couldn't find the device address!"
Raises_device_init == "The device didn't init yet!"

VARIABLES
    lib,        \* which revision the program uses: "frostapi" or "i2c_api"
    i2c,        \* the bus handle self.i2c: "UNINIT", "MASTER" or "SLAVE"
    addr,       \* FrostAPI._addr / I2C_API._ADDR
    timeout,    \* FrostAPI._timeout (None in I2C_API, which has no such field)
    addr_size,  \* FrostAPI._addr_size (None in I2C_API)
    ready,      \* ready[k]: the addresses that answer on the bus at the k-th
                \* access of the last call
    op,         \* the last call: its name and arguments
    pre,        \* the session's fields when the last call was entered
    calls,      \* the accesses the last call made to the bus handle, in order
    result      \* "ok", or the message of the exception the last call raised

vars == <<lib, i2c, addr, timeout, addr_size, ready, op, pre, calls, result>>

\* ------------------------------------------------------------ the bus handle
\* str(self.i2c), as the tokens of the text pyb prints for the handle.
str(b) ==
    CASE b = "UNINIT" -> <<"I2C(", "1", ")">>
      [] b = "MASTER" -> <<"I2C(", "1", ",", " I2C.", "MASTER", ",",
                            " baudrate=", "400000", ")">>
      [] b = "SLAVE"  -> <<"I2C(", "1", ",", " I2C.", "SLAVE", ",",
                            " addr=", "0x12", ")">>

\* s.split(sep): the pieces of s between the occurrences of sep.
RECURSIVE split(_, _)
split(s, sep) ==
    IF \A i \in 1..Len(s) : s[i] # sep
    THEN <<s>>
    ELSE LET i == CHOOSE j \in 1..Len(s) :
                      s[j] = sep /\ \A k \in 1..(j - 1) : s[k] # sep
         IN <<SubSeq(s, 1, i - 1)>> \o split(SubSeq(s, i + 1, Len(s)), sep)

\* tok in s
contains(s, tok) == \E i \in 1..Len(s) : s[i] = tok

\* The handle after the accesses cs: init(mode) and deinit() change it.
RECURSIVE I2C_after(_, _)
I2C_after(b, cs) ==
    IF cs = <<>> THEN b
    ELSE I2C_after(CASE Head(cs).fn = "init" -> Head(cs).mode
                     [] Head(cs).fn = "deinit" -> "UNINIT"
                     [] OTHER -> b,
                   Tail(cs))

\* What a call comes to: the bus accesses it made and how it ended.
Ok(cs) == [calls |-> cs, result |-> "ok"]
Raise(cs, e) == [calls |-> cs, result |-> e]

\* ------------------------------------------------------------------ FrostAPI
is_init(b) == Len(split(str(b), ",")) > 1

\* self.i2c.is_ready(addr) at a moment when the addresses rdy answer.
is_ready(a, rdy) == [fn |-> "is_ready", addr |-> a, ans |-> a \in rdy]

get_addr == addr
get_timeout == timeout
get_addr_size == addr_size

set_addr(a) == addr' = a /\ UNCHANGED <<timeout, addr_size>>

\* A set_timeout that also puts the address width back to its default.
set_timeout_resets_width(t) ==
    timeout' = t /\ addr_size' = DefaultAddrSize /\ UNCHANGED addr

set_timeout(t) == timeout' = t /\ UNCHANGED <<addr, addr_size>>

set_addr_size(w) == addr_size' = w /\ UNCHANGED <<addr, timeout>>

begin(mode) == Ok(<<[fn |-> "init", mode |-> mode]>>)

\* A close that does not ask is_init first.
close_unchecked(b) == Ok(<<[fn |-> "deinit"]>>)

close(b) ==
    IF ~is_init(b) THEN Raise(<<>>, not_init_device)
    ELSE Ok(<<[fn |-> "deinit"]>>)

\* An is_master_mode that takes any initialised handle for a master.
is_master_mode_any(b) ==
    IF ~is_init(b) THEN [exc |-> not_init_device, val |-> FALSE]
    ELSE [exc |-> "ok", val |-> contains(str(b), " I2C.")]

\* [exc |-> message or "ok", val |-> the value returned]
is_master_mode(b) ==
    IF ~is_init(b) THEN [exc |-> not_init_device, val |-> FALSE]
    ELSE [exc |-> "ok", val |-> contains(str(b), "MASTER")]

scan_addr == Ok(<<[fn |-> "scan"]>>)

_send(buf, a, t) == Ok(<<[fn |-> "send", send |-> buf, addr |-> a, timeout |-> t]>>)

\* A send_to that probes and sends whatever the answer.
send_to_unguarded(buf, a, env) ==
    LET p == is_ready(a, env[1])
        r == _send(buf, a, get_timeout)
    IN [calls |-> <<p>> \o r.calls, result |-> r.result]

\* A send_to that leaves _send its default timeout.
send_to_default_timeout(buf, a, env) ==
    LET p == is_ready(a, env[1]) IN
    IF ~p.ans THEN Raise(<<p>>, not_found_address)
    ELSE LET r == _send(buf, a, DefaultTimeout)
         IN [calls |-> <<p>> \o r.calls, result |-> r.result]

send_to(buf, a, env) ==
    LET p == is_ready(a, env[1]) IN
    IF ~p.ans THEN Raise(<<p>>, not_found_address)
    ELSE LET r == _send(buf, a, get_timeout)
         IN [calls |-> <<p>> \o r.calls, result |-> r.result]

\* A _recv that, like _send, does not probe.
_recv_unprobed(size, a, t, env) ==
    Ok(<<[fn |-> "recv", recv |-> size, addr |-> a, timeout |-> t]>>)

\* env[1] is the bus at the first access _recv makes.
_recv(size, a, t, env) ==
    LET p == is_ready(a, env[1]) IN
    IF ~p.ans THEN Raise(<<p>>, not_found_address)
    ELSE Ok(<<p, [fn |-> "recv", recv |-> size, addr |-> a, timeout |-> t]>>)

recv_from(size, a, env) ==
    LET p == is_ready(a, env[1]) IN
    IF ~p.ans THEN Raise(<<p>>, not_found_address)
    ELSE LET r == _recv(size, a, get_timeout, Tail(env))
         IN [calls |-> <<p>> \o r.calls, result |-> r.result]

_write(buf, a, memaddr) ==
    Ok(<<[fn |-> "mem_write", data |-> buf, addr |-> a, memaddr |-> memaddr,
          timeout |-> get_timeout, addr_size |-> get_addr_size]>>)

write_mem(buf, memaddr) ==
    LET m == is_master_mode(i2c) IN
    IF m.exc # "ok" THEN Raise(<<>>, m.exc)
    ELSE IF ~m.val THEN Raise(<<>>, not_init_by_master_mode)
    ELSE _write(buf, get_addr, memaddr)

_read(size, a, memaddr) ==
    Ok(<<[fn |-> "mem_read", data |-> size, addr |-> a, memaddr |-> memaddr,
          timeout |-> get_timeout, addr_size |-> get_addr_size]>>)

read_mem(size, memaddr) ==
    LET m == is_master_mode(i2c) IN
    IF m.exc # "ok" THEN Raise(<<>>, m.exc)
    ELSE IF ~m.val THEN Raise(<<>>, not_init_by_master_mode)
    ELSE _read(size, get_addr, memaddr)

\* ------------------------------------------------------------------- I2C_API
I2C_API_is_init(b) == Len(split(str(b), ",")) > 1

I2C_API_get_addr == addr

\* self.i2c.is_ready(self.get_addr())
I2C_API_is_ready(rdy) == is_ready(I2C_API_get_addr, rdy)

I2C_API_set_addr(a) == addr' = a

I2C_API_begin(mode) == Ok(<<[fn |-> "init", mode |-> mode]>>)

I2C_API_close(b) ==
    IF I2C_API_is_init(b) THEN Ok(<<[fn |-> "deinit"]>>)
    ELSE Raise(<<>>, Raises_device_init)

I2C_API_addr_scan == Ok(<<[fn |-> "scan"]>>)

I2C_API_send(buf, a, t, env) ==
    LET p == I2C_API_is_ready(env[1]) IN
    IF p.ans
    THEN Ok(<<p, [fn |-> "send", send |-> buf, addr |-> a, timeout |-> t]>>)
    ELSE Raise(<<p>>, Raises_device_address)

I2C_API_recv(size, a, t, env) ==
    LET p == I2C_API_is_ready(env[1]) IN
    IF p.ans
    THEN Ok(<<p, [fn |-> "recv", recv |-> size, addr |-> a, timeout |-> t]>>)
    ELSE Raise(<<p>>, Raises_device_address)

I2C_API_write(buf, a, memaddr, t, w, env) ==
    LET p == I2C_API_is_ready(env[1]) IN
    IF p.ans
    THEN Ok(<<p, [fn |-> "mem_write", data |-> buf, addr |-> a, memaddr |-> memaddr,
                  timeout |-> t, addr_size |-> w]>>)
    ELSE Raise(<<p>>, Raises_device_address)

I2C_API_read(size, a, memaddr, t, w, env) ==
    LET p == I2C_API_is_ready(env[1]) IN
    IF p.ans
    THEN Ok(<<p, [fn |-> "mem_read", data |-> size, addr |-> a, memaddr |-> memaddr,
                  timeout |-> t, addr_size |-> w]>>)
    ELSE Raise(<<p>>, Raises_device_address)

\* ------------------------------------------------------------ the session
Fields == [i2c |-> i2c, addr |-> addr, timeout |-> timeout, addr_size |-> addr_size]

\* FrostAPI.__init__ / I2C_API.__init__
Init ==
    /\ lib \in {"frostapi", "i2c_api"}
    /\ i2c = "UNINIT"
    /\ addr = IF lib = "frostapi" THEN None ELSE ApiDefaultAddr
    /\ timeout = IF lib = "frostapi" THEN DefaultTimeout ELSE None
    /\ addr_size = IF lib = "frostapi" THEN DefaultAddrSize ELSE None
    /\ ready \in {[k \in BusSteps |-> s] : s \in SUBSET Addrs}
    /\ op = [name |-> "__init__"]
    /\ pre = Fields
    /\ calls = <<[fn |-> "I2C", bus |-> 1]>>
    /\ result = "ok"

\* The bus during a call made while the devices do not change.
Steady == {[k \in BusSteps |-> s] : s \in SUBSET Addrs}
\* The bus during a call while devices come and go between its accesses.
Changing == [BusSteps -> SUBSET Addrs]

\* A call o that came to out: the log, and the handle after its accesses.
Done(o, out) ==
    /\ op' = o
    /\ pre' = Fields
    /\ calls' = out.calls
    /\ result' = out.result
    /\ i2c' = I2C_after(i2c, out.calls)
    /\ UNCHANGED lib

Call_begin ==
    /\ lib = "frostapi"
    /\ \E mode \in Modes : Done([name |-> "begin", mode |-> mode], begin(mode))
    /\ UNCHANGED <<addr, timeout, addr_size, ready>>

Call_close ==
    /\ lib = "frostapi"
    /\ Done([name |-> "close"], close(i2c))
    /\ UNCHANGED <<addr, timeout, addr_size, ready>>

Call_scan_addr ==
    /\ lib = "frostapi"
    /\ \E env \in Steady :
          /\ ready' = env
          /\ Done([name |-> "scan_addr"], scan_addr)
    /\ UNCHANGED <<addr, timeout, addr_size>>

Call_set_addr ==
    /\ lib = "frostapi"
    /\ \E a \in Addrs :
          /\ set_addr(a)
          /\ Done([name |-> "set_addr", addr |-> a], Ok(<<>>))
    /\ UNCHANGED ready

Call_set_timeout ==
    /\ lib = "frostapi"
    /\ \E t \in Timeouts :
          /\ set_timeout(t)
          /\ Done([name |-> "set_timeout", timeout |-> t], Ok(<<>>))
    /\ UNCHANGED ready

Call_set_addr_size ==
    /\ lib = "frostapi"
    /\ \E w \in AddrSizes :
          /\ set_addr_size(w)
          /\ Done([name |-> "set_addr_size", addr_size |-> w], Ok(<<>>))
    /\ UNCHANGED ready

Call_send_to(Envs) ==
    /\ lib = "frostapi"
    /\ \E buf \in Bufs, a \in Addrs, env \in Envs :
          /\ ready' = env
          /\ Done([name |-> "send_to", buf |-> buf, addr |-> a], send_to(buf, a, env))
    /\ UNCHANGED <<addr, timeout, addr_size>>

Call_recv_from(Envs) ==
    /\ lib = "frostapi"
    /\ \E size \in Sizes, a \in Addrs, env \in Envs :
          /\ ready' = env
          /\ Done([name |-> "recv_from", size |-> size, addr |-> a],
                  recv_from(size, a, env))
    /\ UNCHANGED <<addr, timeout, addr_size>>

Call_write_mem ==
    /\ lib = "frostapi"
    /\ \E buf \in Bufs, m \in MemAddrs, env \in Steady :
          /\ ready' = env
          /\ Done([name |-> "write_mem", buf |-> buf, memaddr |-> m], write_mem(buf, m))
    /\ UNCHANGED <<addr, timeout, addr_size>>

Call_read_mem ==
    /\ lib = "frostapi"
    /\ \E size \in Sizes, m \in MemAddrs, env \in Steady :
          /\ ready' = env
          /\ Done([name |-> "read_mem", size |-> size, memaddr |-> m], read_mem(size, m))
    /\ UNCHANGED <<addr, timeout, addr_size>>

Call_I2C_API_begin ==
    /\ lib = "i2c_api"
    /\ \E mode \in Modes :
          Done([name |-> "begin", mode |-> mode], I2C_API_begin(mode))
    /\ UNCHANGED <<addr, timeout, addr_size, ready>>

Call_I2C_API_close ==
    /\ lib = "i2c_api"
    /\ Done([name |-> "close"], I2C_API_close(i2c))
    /\ UNCHANGED <<addr, timeout, addr_size, ready>>

Call_I2C_API_addr_scan ==
    /\ lib = "i2c_api"
    /\ \E env \in Steady :
          /\ ready' = env
          /\ Done([name |-> "addr_scan"], I2C_API_addr_scan)
    /\ UNCHANGED <<addr, timeout, addr_size>>

Call_I2C_API_set_addr ==
    /\ lib = "i2c_api"
    /\ \E a \in Addrs :
          /\ I2C_API_set_addr(a)
          /\ Done([name |-> "set_addr", addr |-> a], Ok(<<>>))
    /\ UNCHANGED <<timeout, addr_size, ready>>

Call_I2C_API_send ==
    /\ lib = "i2c_api"
    /\ \E buf \in Bufs, a \in Addrs, t \in Timeouts, env \in Steady :
          /\ ready' = env
          /\ Done([name |-> "_send", buf |-> buf, addr |-> a, timeout |-> t],
                  I2C_API_send(buf, a, t, env))
    /\ UNCHANGED <<addr, timeout, addr_size>>

Call_I2C_API_recv ==
    /\ lib = "i2c_api"
    /\ \E size \in Sizes, a \in Addrs, t \in Timeouts, env \in Steady :
          /\ ready' = env
          /\ Done([name |-> "_recv", size |-> size, addr |-> a, timeout |-> t],
                  I2C_API_recv(size, a, t, env))
    /\ UNCHANGED <<addr, timeout, addr_size>>

Call_I2C_API_write ==
    /\ lib = "i2c_api"
    /\ \E buf \in Bufs, a \in Addrs, m \in MemAddrs, t \in Timeouts,
          w \in AddrSizes, env \in Steady :
          /\ ready' = env
          /\ Done([name |-> "_write", buf |-> buf, addr |-> a, memaddr |-> m,
                   timeout |-> t, addr_size |-> w],
                  I2C_API_write(buf, a, m, t, w, env))
    /\ UNCHANGED <<addr, timeout, addr_size>>

Call_I2C_API_read ==
    /\ lib = "i2c_api"
    /\ \E size \in Sizes, a \in Addrs, m \in MemAddrs, t \in Timeouts,
          w \in AddrSizes, env \in Steady :
          /\ ready' = env
          /\ Done([name |-> "_read", size |-> size, addr |-> a, memaddr |-> m,
                   timeout |-> t, addr_size |-> w],
                  I2C_API_read(size, a, m, t, w, env))
    /\ UNCHANGED <<addr, timeout, addr_size>>

Next ==
    \/ Call_begin
    \/ Call_close
    \/ Call_scan_addr
    \/ Call_set_addr
    \/ Call_set_timeout
    \/ Call_set_addr_size
    \/ Call_send_to(Steady)
    \/ Call_recv_from(Steady)
    \/ Call_write_mem
    \/ Call_read_mem
    \/ Call_I2C_API_begin
    \/ Call_I2C_API_close
    \/ Call_I2C_API_addr_scan
    \/ Call_I2C_API_set_addr
    \/ Call_I2C_API_send
    \/ Call_I2C_API_recv
    \/ Call_I2C_API_write
    \/ Call_I2C_API_read

\* A program making its calls one after another on a quiet bus.
Spec == Init /\ [][Next]_vars

\* A FrostAPI program on a bus whose devices come and go while a call runs.
InitConc == Init /\ lib = "frostapi"

NextConc ==
    \/ Call_begin
    \/ Call_set_timeout
    \/ Call_send_to(Changing)
    \/ Call_recv_from(Changing)

SpecConc == InitConc /\ [][NextConc]_vars

\* ------------------------------------------------------------ the properties
\* The places in `calls` of the accesses named in fns.
Issued(fns) == {k \in 1..Len(calls) : calls[k].fn \in fns}

MemOps == {"write_mem", "read_mem"}
MemAccess == {"mem_write", "mem_read"}
Transfer == {"send", "recv", "mem_write", "mem_read", "scan"}
Setters == {"set_addr", "set_timeout", "set_addr_size"}

\* C1: close calls deinit on the bus only on an initialised session; on a
\* session never begun, or closed since its last begin, it raises the
\* not-initialised exception of its class and makes no access to the bus.
C1_CloseRequiresInit ==
    op.name = "close" =>
        /\ Issued({"deinit"}) # {} => pre.i2c # "UNINIT"
        /\ pre.i2c = "UNINIT" =>
              /\ calls = <<>>
              /\ result = IF lib = "frostapi" THEN not_init_device
                          ELSE Raises_device_init
        /\ pre.i2c # "UNINIT" => result = "ok" /\ i2c = "UNINIT"

C1_Witness ==
    /\ lib = "i2c_api"
    /\ op.name = "close"
    /\ pre.i2c = "UNINIT"
    /\ result = Raises_device_init
    /\ calls = <<>>

\* C2: send_to(buf, A) and recv_from(size, A) probe is_ready at A and nowhere
\* else; when A does not answer they raise not_found_address and issue no send
\* or recv; when A answers they issue exactly one send (resp. recv), to A.
C2_GuardedByIsReady ==
    (lib = "frostapi" /\ op.name \in {"send_to", "recv_from"}) =>
        LET A == op.addr
            xs == Issued({"send", "recv"})
        IN /\ Issued({"is_ready"}) # {}
           /\ \A k \in Issued({"is_ready"}) : calls[k].addr = A
           /\ A \notin ready[1] => result = not_found_address /\ xs = {}
           /\ A \in ready[1] =>
                 /\ result = "ok"
                 /\ Cardinality(xs) = 1
                 /\ \A k \in xs :
                       /\ calls[k].addr = A
                       /\ calls[k].fn = IF op.name = "send_to" THEN "send" ELSE "recv"

C2_Witness ==
    /\ op.name = "send_to"
    /\ pre.i2c = "MASTER"
    /\ op.addr \notin ready[1]
    /\ ready[1] # {}
    /\ result = not_found_address
    /\ Issued({"send"}) = {}

\* C3 (as claimed): on a session begun as master whose stored address is set,
\* write_mem and read_mem raise not_found_address and issue no mem_write or
\* mem_read when no device answers at the stored address.
C3_MemGuardedByIsReady ==
    (lib = "frostapi" /\ op.name \in MemOps /\ pre.i2c = "MASTER"
        /\ pre.addr \in Addrs /\ pre.addr \notin ready[1]) =>
        /\ result = not_found_address
        /\ Issued(MemAccess) = {}

\* C4 (as claimed): send_to, recv_from, write_mem, read_mem and scan_addr on a
\* session that is not initialised raise not_init_device and issue no send,
\* recv, mem_write, mem_read or scan.
C4_TransfersRequireInit ==
    (lib = "frostapi" /\ pre.i2c = "UNINIT"
        /\ op.name \in {"send_to", "recv_from", "write_mem", "read_mem", "scan_addr"}) =>
        /\ result = not_init_device
        /\ Issued(Transfer) = {}

\* C5 (as claimed): write_mem and read_mem issue no mem_write or mem_read
\* while the stored address is still None.
C5_AddressSetBeforeMemAccess ==
    (lib = "frostapi" /\ op.name \in MemOps /\ pre.addr = None) =>
        Issued(MemAccess) = {}

\* C6: write_mem and read_mem on a session begun as slave raise
\* not_init_by_master_mode and issue no mem_write or mem_read; a memory access
\* is issued only when the handle was last put in master mode.
C6_MemOnlyInMasterMode ==
    (lib = "frostapi" /\ op.name \in MemOps) =>
        /\ pre.i2c = "SLAVE" =>
              result = not_init_by_master_mode /\ Issued(MemAccess) = {}
        /\ Issued(MemAccess) # {} => pre.i2c = "MASTER"

C6_Witness ==
    /\ op.name = "write_mem"
    /\ pre.i2c = "SLAVE"
    /\ pre.addr \in ready[1]
    /\ result = not_init_by_master_mode
    /\ calls = <<>>

\* C7 (as claimed): on a session begun as master, I2C_API's _send, _recv,
\* _write and _read to a target address that does not answer raise the
\* device-address error and issue no transfer, whatever the stored address.
C7_ApiGuardsTarget ==
    (lib = "i2c_api" /\ op.name \in {"_send", "_recv", "_write", "_read"}
        /\ pre.i2c = "MASTER" /\ op.addr \notin ready[1]) =>
        /\ result = Raises_device_address
        /\ Issued(Transfer) = {}

\* C8: a FrostAPI session starts with address None, timeout 5000 and width 8;
\* each setter puts its argument in its own setting and leaves the other two
\* and the handle as they were; no other call changes a setting.
C8_SettingsFrame ==
    lib = "frostapi" =>
        /\ op.name = "__init__" =>
              get_addr = None /\ get_timeout = 5000 /\ get_addr_size = 8
        /\ op.name = "set_addr" =>
              /\ get_addr = op.addr
              /\ get_timeout = pre.timeout /\ get_addr_size = pre.addr_size
              /\ i2c = pre.i2c
        /\ op.name = "set_timeout" =>
              /\ get_timeout = op.timeout
              /\ get_addr = pre.addr /\ get_addr_size = pre.addr_size
              /\ i2c = pre.i2c
        /\ op.name = "set_addr_size" =>
              /\ get_addr_size = op.addr_size
              /\ get_addr = pre.addr /\ get_timeout = pre.timeout
              /\ i2c = pre.i2c
        /\ op.name \notin Setters \cup {"__init__"} =>
              /\ get_addr = pre.addr
              /\ get_timeout = pre.timeout
              /\ get_addr_size = pre.addr_size

C8_Witness ==
    /\ lib = "frostapi"
    /\ op.name = "set_timeout"
    /\ op.timeout # DefaultTimeout
    /\ get_timeout = op.timeout
    /\ get_addr \in Addrs
    /\ get_addr_size = WideAddrSize
    /\ i2c = "MASTER"

\* C9: a send or recv issued by a FrostAPI call carries the timeout the
\* session had when the call was made; a mem_write or mem_read carries the
\* stored address, the timeout and the address width it had.
C9_TransfersCarrySettings ==
    lib = "frostapi" =>
        /\ \A k \in Issued({"send", "recv"}) : calls[k].timeout = pre.timeout
        /\ \A k \in Issued(MemAccess) :
              /\ calls[k].addr = pre.addr
              /\ calls[k].timeout = pre.timeout
              /\ calls[k].addr_size = pre.addr_size

C9_Witness ==
    /\ lib = "frostapi"
    /\ op.name = "send_to"
    /\ pre.timeout # DefaultTimeout
    /\ \E k \in Issued({"send"}) : calls[k].timeout = pre.timeout

C10_SendAfterDrop ==
    /\ op.name = "send_to"
    /\ op.addr \in ready[1]
    /\ op.addr \notin ready[2]
    /\ Issued({"send"}) # {}

=============================================================================
